---- MODULE Spec2Model ----
(***************************************************************************)
(* Token lifecycle and session revocation of the FastAPI authentication    *)
(* gateway: app/core/security.py (JWT codec and the get_current_user       *)
(* dependency), app/core/redis_service.py (the Redis session store) and    *)
(* app/api/auth_router.py (login, refresh, logout).                        *)
(*                                                                         *)
(* Time is the wall clock in whole seconds, the resolution of the JWT exp  *)
(* claim.  A JWT is modelled by the claims that determine its text (sub,   *)
(* type, exp) and by the key that signed it: HS256 is deterministic, so    *)
(* two tokens with equal claims signed with SECRET_KEY are the same string.*)
(***************************************************************************)
EXTENDS Integers, Sequences, FiniteSets, TLC

VARIABLES
    now,        \* datetime.now(timezone.utc), in whole seconds
    users,      \* the sys_users table: user_id -> [is_active, is_deleted]
    redis,      \* the Redis database, one function per key prefix
    last,       \* the request served last and its response
    session,    \* per user: the tokens of the most recent successful login
    outages,    \* the number of requests in which a Redis command raised
    logout_user, \* the user of the logout request whose route is yet to run
    logins      \* per worker process: the login request it is serving

vars == <<now, users, redis, last, session, outages, logout_user, logins>>

-----------------------------------------------------------------------------
(* Bounds of the model *)

\* the last second of the clock, without and with Redis outages
MaxTime == 2
MaxFailTime == 1
\* the longest user_tokens list a refresh still adds to
MaxIndexLen == 3
\* the number of requests of a behaviour in which a Redis command raises
MaxOutages == 1
\* the last second of the clock of a session that is left to expire
MaxLifeTime == 3

(* settings.ACCESS_TOKEN_EXPIRE_MINUTES * 60 and                            *)
(* settings.REFRESH_TOKEN_EXPIRE_DAYS * 24 * 60 * 60, scaled down: minutes  *)
(* against days, so the access lifetime is the shorter one.                *)
AccessTTL == 1
RefreshTTL == 2

\* the rows of sys_users (user_id is the autoincrement primary key)
Principals == {1, 2, 3}

\* the rows with is_active = False
Disabled == {3}

\* the users whose clients send requests
Clients == {1}

\* Python's None where an Optional[int] user id or Optional[User] is returned
None == 0

\* a key without a time to live (a list created by LPUSH)
NoExpiry == 0 - 1

\* The number of the Redis command of a request that raises; 0: none does.
\* login issues LRANGE, a DEL per listed token, DEL, SETEX, LPUSH, EXPIRE and
\* SETEX; logout GET, LRANGE, a DEL per listed token and DEL; refresh GET,
\* SETEX, LPUSH and EXPIRE; a protected route GET.
LoginFailures == 0..(MaxIndexLen + 6)
LogoutFailures == 0..(MaxIndexLen + 2)
RefreshFailures == 0..4
AuthenticateFailures == 0..1

-----------------------------------------------------------------------------
(* TokenCodec: jose.jwt with settings.SECRET_KEY and settings.ALGORITHM *)

NoToken == [sub |-> None, type |-> "none", exp |-> 0, key |-> "none"]

\* jwt.encode(to_encode, settings.SECRET_KEY, ...): the text of the token is
\* a function of the claims and of the signing key
jwt_encode(sub, type, exp) ==
    [sub |-> sub, type |-> type, exp |-> exp, key |-> "SECRET_KEY"]

create_access_token(user_id) ==
    jwt_encode(user_id, "access", now + AccessTTL)

\* a slip: the refresh token is given the lifetime of an access token
create_refresh_token_short(user_id) ==
    jwt_encode(user_id, "refresh", now + AccessTTL)

create_refresh_token(user_id) ==
    jwt_encode(user_id, "refresh", now + RefreshTTL)

\* jwt.decode raises JWTError for a signature made with another key and for
\* exp < now (ExpiredSignatureError); decode_token turns it into a 401
decode_token(token) ==
    IF token.key = "SECRET_KEY" /\ ~(token.exp < now)
    THEN [ok |-> TRUE, sub |-> token.sub, type |-> token.type,
          exp |-> token.exp]
    ELSE [ok |-> FALSE, sub |-> None, type |-> "none", exp |-> 0]

\* a token re-signed with a key that is not the service's
Forge(token) == [token EXCEPT !.key = "attacker"]

-----------------------------------------------------------------------------
(* Redis commands on one key prefix; db maps a key to [value, expireAt] *)

SETEX(db, key, seconds, value) ==
    [k \in DOMAIN db \cup {key} |->
        IF k = key THEN [value |-> value, expireAt |-> now + seconds]
        ELSE db[k]]

GET(db, key) == IF key \in DOMAIN db THEN db[key].value ELSE None

DEL(db, key) == [k \in DOMAIN db \ {key} |-> db[k]]

LRANGE(db, key) == IF key \in DOMAIN db THEN db[key].value ELSE <<>>

LPUSH(db, key, value) ==
    [k \in DOMAIN db \cup {key} |->
        IF k /= key THEN db[k]
        ELSE IF key \in DOMAIN db
             THEN [db[key] EXCEPT !.value = <<value>> \o @]
             ELSE [value |-> <<value>>, expireAt |-> NoExpiry]]

EXPIRE(db, key, seconds) ==
    IF key \in DOMAIN db THEN [db EXCEPT ![key].expireAt = now + seconds]
    ELSE db

EmptyDb == [k \in {} |-> None]

(* A request issues its Redis commands one after the other.  c is the      *)
(* connection as the request sees it: the database, the number of commands *)
(* issued so far, and whether every one of them was answered.  The command *)
(* numbered fail raises (ConnectionError, TimeoutError) and leaves the      *)
(* database as it was; fail = 0 is a request that Redis serves in full.    *)
Connect == [redis |-> redis, n |-> 0, ok |-> TRUE]

Command(c, fail, after) ==
    IF ~c.ok THEN c
    ELSE IF c.n + 1 = fail THEN [c EXCEPT !.n = c.n + 1, !.ok = FALSE]
    ELSE [redis |-> after, n |-> c.n + 1, ok |-> TRUE]

-----------------------------------------------------------------------------
(* RedisService (app/core/redis_service.py) *)

\* a slip: the lifetime of the list is set when the list is created only
store_access_token_keep_ttl(c, fail, user_id, access_token, expires_in) ==
    LET c1 == Command(c, fail,
                [c.redis EXCEPT !.access_token =
                    SETEX(@, access_token, expires_in, user_id)])
        c2 == Command(c1, fail,
                [c1.redis EXCEPT !.user_tokens =
                    LPUSH(@, user_id, access_token)])
    IN  IF user_id \in DOMAIN c.redis.user_tokens
        THEN c2
        ELSE Command(c2, fail,
                [c2.redis EXCEPT !.user_tokens =
                    EXPIRE(@, user_id, RefreshTTL)])

\* a slip: the list is given the lifetime of the access token
store_access_token_short_list(c, fail, user_id, access_token, expires_in) ==
    LET c1 == Command(c, fail,
                [c.redis EXCEPT !.access_token =
                    SETEX(@, access_token, expires_in, user_id)])
        c2 == Command(c1, fail,
                [c1.redis EXCEPT !.user_tokens =
                    LPUSH(@, user_id, access_token)])
    IN  Command(c2, fail,
                [c2.redis EXCEPT !.user_tokens =
                    EXPIRE(@, user_id, expires_in)])

store_access_token(c, fail, user_id, access_token, expires_in) ==
    LET c1 == Command(c, fail,
                [c.redis EXCEPT !.access_token =
                    SETEX(@, access_token, expires_in, user_id)])
        c2 == Command(c1, fail,
                [c1.redis EXCEPT !.user_tokens =
                    LPUSH(@, user_id, access_token)])
    IN  Command(c2, fail,
                [c2.redis EXCEPT !.user_tokens =
                    EXPIRE(@, user_id, RefreshTTL)])

\* a slip: redis.set in place of redis.setex, the entry has no time to live
store_refresh_token_persistent(c, fail, user_id, refresh_token) ==
    Command(c, fail,
        [c.redis EXCEPT !.refresh_token =
            [k \in DOMAIN @ \cup {refresh_token} |->
                IF k = refresh_token
                THEN [value |-> user_id, expireAt |-> NoExpiry]
                ELSE @[k]]])

store_refresh_token(c, fail, user_id, refresh_token) ==
    Command(c, fail,
        [c.redis EXCEPT !.refresh_token =
            SETEX(@, refresh_token, RefreshTTL, user_id)])

\* redis.get(token_key): a read, the database stays as it is
Get(c, fail) == Command(c, fail, c.redis)

\* int(user_id_str) if user_id_str else None (no value when the GET raised)
get_user_id_by_access_token(c, fail, access_token) ==
    IF Get(c, fail).ok THEN GET(c.redis.access_token, access_token) ELSE None

\* a slip: the lookup falls back to the access_token: prefix
get_user_id_by_refresh_token_any_prefix(c, fail, refresh_token) ==
    IF ~Get(c, fail).ok THEN None
    ELSE IF GET(c.redis.refresh_token, refresh_token) /= None
    THEN GET(c.redis.refresh_token, refresh_token)
    ELSE GET(c.redis.access_token, refresh_token)

get_user_id_by_refresh_token(c, fail, refresh_token) ==
    IF Get(c, fail).ok THEN GET(c.redis.refresh_token, refresh_token) ELSE None

\* for token in tokens: redis.delete(f"access_token:{token}")
RECURSIVE DeleteEach(_, _, _, _)
DeleteEach(c, fail, tokens, i) ==
    IF i > Len(tokens) \/ ~c.ok THEN c
    ELSE DeleteEach(
            Command(c, fail,
                [c.redis EXCEPT !.access_token = DEL(@, tokens[i])]),
            fail, tokens, i + 1)

\* a slip: redis.lrange(user_tokens_key, 0, 0) reads the newest token only
revoke_all_user_tokens_newest_only(c, fail, user_id) ==
    LET c1 == Command(c, fail, c.redis)
        listed == LRANGE(c.redis.user_tokens, user_id)
        tokens == IF listed = <<>> THEN <<>> ELSE <<Head(listed)>>
        c2 == DeleteEach(c1, fail, tokens, 1)
    IN  Command(c2, fail, [c2.redis EXCEPT !.user_tokens = DEL(@, user_id)])

\* a slip: the access entries are deleted, the list is left
revoke_all_user_tokens_keep_list(c, fail, user_id) ==
    LET c1 == Command(c, fail, c.redis)
        tokens == LRANGE(c.redis.user_tokens, user_id)
    IN  DeleteEach(c1, fail, tokens, 1)

\* a slip: the list is deleted, the access entries it names are left
revoke_all_user_tokens_list_only(c, fail, user_id) ==
    LET c1 == Command(c, fail, c.redis)
    IN  Command(c1, fail, [c1.redis EXCEPT !.user_tokens = DEL(@, user_id)])

\* a slip: every list is deleted (DEL user_tokens:*), not the user's alone
revoke_all_user_tokens_every_list(c, fail, user_id) ==
    LET c1 == Command(c, fail, c.redis)
        tokens == LRANGE(c.redis.user_tokens, user_id)
        c2 == DeleteEach(c1, fail, tokens, 1)
    IN  Command(c2, fail, [c2.redis EXCEPT !.user_tokens = EmptyDb])

revoke_all_user_tokens(c, fail, user_id) ==
    LET c1 == Command(c, fail, c.redis)
        tokens == LRANGE(c.redis.user_tokens, user_id)
        c2 == DeleteEach(c1, fail, tokens, 1)
    IN  Command(c2, fail, [c2.redis EXCEPT !.user_tokens = DEL(@, user_id)])

-----------------------------------------------------------------------------
(* UserRepository (app/repositories/user_repository.py); user_name is      *)
(* unique, so a user name is identified with the id of its row             *)

get_by_id(user_id) ==
    IF user_id \in Principals /\ ~users[user_id].is_deleted
    THEN user_id ELSE None

get_by_user_name(user_name) ==
    IF user_name \in Principals /\ ~users[user_name].is_deleted
    THEN user_name ELSE None

-----------------------------------------------------------------------------
(* The dependencies of app/core/security.py.  A response is                *)
(* [status, detail, user, access, refresh, failed]: failed says that a     *)
(* Redis command of the request raised.                                    *)

Response(status, detail, user, access, refresh, failed) ==
    [status |-> status, detail |-> detail, user |-> user,
     access |-> access, refresh |-> refresh, failed |-> failed]

Unauthorized(detail) == Response("401", detail, None, NoToken, NoToken, FALSE)

\* an exception that is no HTTPException: global_exception_handler answers 500
ServerError == Response("500", "internal", None, NoToken, NoToken, TRUE)

\* a slip: the Redis lookup is wrapped in try/except and the request goes on
\* with the signature check alone
get_current_user_failopen(c, fail, token) ==
    LET raised == ~Get(c, fail).ok
        redis_user_id == get_user_id_by_access_token(c, fail, token)
        payload == decode_token(token)
    IN  IF ~raised /\ redis_user_id = None THEN Unauthorized("revoked")
        ELSE IF ~payload.ok THEN Unauthorized("invalid")
        ELSE IF payload.type /= "access" THEN Unauthorized("type")
        ELSE IF ~raised /\ redis_user_id /= payload.sub
             THEN Unauthorized("credentials")
        ELSE IF get_by_id(payload.sub) = None THEN Unauthorized("credentials")
        ELSE Response("success", "user", get_by_id(payload.sub),
                      NoToken, NoToken, raised)

\* a slip: the signed token is trusted without the Redis lookup
get_current_user_stateless(c, fail, token) ==
    LET payload == decode_token(token)
    IN  IF ~Get(c, fail).ok THEN ServerError
        ELSE IF ~payload.ok THEN Unauthorized("invalid")
        ELSE IF payload.type /= "access" THEN Unauthorized("type")
        ELSE IF get_by_id(payload.sub) = None THEN Unauthorized("credentials")
        ELSE Response("success", "user", get_by_id(payload.sub),
                      NoToken, NoToken, FALSE)

get_current_user(c, fail, token) ==
    LET redis_user_id == get_user_id_by_access_token(c, fail, token)
        payload == decode_token(token)
    IN  IF ~Get(c, fail).ok THEN ServerError
        ELSE IF redis_user_id = None THEN Unauthorized("revoked")
        ELSE IF ~payload.ok THEN Unauthorized("invalid")
        ELSE IF payload.sub = None THEN Unauthorized("credentials")
        ELSE IF payload.type /= "access" THEN Unauthorized("type")
        ELSE IF redis_user_id /= payload.sub THEN Unauthorized("credentials")
        ELSE IF get_by_id(payload.sub) = None THEN Unauthorized("credentials")
        ELSE Response("success", "user", get_by_id(payload.sub),
                      NoToken, NoToken, FALSE)

\* a slip: is_active is not looked at
get_current_active_user_any(c, fail, token) ==
    get_current_user(c, fail, token)

get_current_active_user(c, fail, token) ==
    LET current_user == get_current_user(c, fail, token)
    IN  IF current_user.status /= "success" THEN current_user
        ELSE IF ~users[current_user.user].is_active
             THEN Response("400", "inactive", None, NoToken, NoToken, FALSE)
        ELSE current_user

-----------------------------------------------------------------------------
(* The routes of app/api/auth_router.py.  A handler yields the database it *)
(* leaves behind and its response.                                         *)

\* BaseResponse.fail_res(message=...)
fail_res(message) == Response("fail", message, None, NoToken, NoToken, FALSE)

\* a slip: the new tokens are stored before the earlier ones are revoked
login_issue_first(username, password_ok, fail) ==
    LET user == get_by_user_name(username)
        access_token == create_access_token(user)
        new_refresh_token == create_refresh_token(user)
        c1 == store_access_token(Connect, fail, user, access_token, AccessTTL)
        c2 == store_refresh_token(c1, fail, user, new_refresh_token)
        c3 == revoke_all_user_tokens(c2, fail, user)
    IN  IF user = None
        THEN [redis |-> redis, resp |-> fail_res("credentials")]
        ELSE IF ~password_ok
        THEN [redis |-> redis, resp |-> fail_res("credentials")]
        ELSE IF ~users[user].is_active
        THEN [redis |-> redis, resp |-> fail_res("disabled")]
        ELSE IF ~c3.ok
        THEN [redis |-> c3.redis, resp |-> ServerError]
        ELSE [redis |-> c3.redis,
              resp |-> Response("success", "login", user,
                                access_token, new_refresh_token, FALSE)]

\* a slip: the earlier tokens are revoked before the password is verified
login_revoke_first(username, password_ok, fail) ==
    LET user == get_by_user_name(username)
        c1 == revoke_all_user_tokens(Connect, fail, user)
        access_token == create_access_token(user)
        new_refresh_token == create_refresh_token(user)
        c2 == store_access_token(c1, fail, user, access_token, AccessTTL)
        c3 == store_refresh_token(c2, fail, user, new_refresh_token)
    IN  IF user = None
        THEN [redis |-> redis, resp |-> fail_res("credentials")]
        ELSE IF ~c1.ok
        THEN [redis |-> c1.redis, resp |-> ServerError]
        ELSE IF ~password_ok
        THEN [redis |-> c1.redis, resp |-> fail_res("credentials")]
        ELSE IF ~users[user].is_active
        THEN [redis |-> c1.redis, resp |-> fail_res("disabled")]
        ELSE IF ~c3.ok
        THEN [redis |-> c3.redis, resp |-> ServerError]
        ELSE [redis |-> c3.redis,
              resp |-> Response("success", "login", user,
                                access_token, new_refresh_token, FALSE)]

login(username, password_ok, fail) ==
    LET user == get_by_user_name(username)
        c1 == revoke_all_user_tokens(Connect, fail, user)
        access_token == create_access_token(user)
        new_refresh_token == create_refresh_token(user)
        c2 == store_access_token(c1, fail, user, access_token, AccessTTL)
        c3 == store_refresh_token(c2, fail, user, new_refresh_token)
    IN  IF user = None
        THEN [redis |-> redis, resp |-> fail_res("credentials")]
        ELSE IF ~password_ok
        THEN [redis |-> redis, resp |-> fail_res("credentials")]
        ELSE IF ~users[user].is_active
        THEN [redis |-> redis, resp |-> fail_res("disabled")]
        ELSE IF ~c3.ok
        THEN [redis |-> c3.redis, resp |-> ServerError]
        ELSE [redis |-> c3.redis,
              resp |-> Response("success", "login", user,
                                access_token, new_refresh_token, FALSE)]

\* a slip: the refresh rotates the refresh token
refresh_token_rotating(request_refresh_token, fail) ==
    LET user_id ==
            get_user_id_by_refresh_token(Connect, fail, request_refresh_token)
        c1 == Get(Connect, fail)
        access_token == create_access_token(user_id)
        new_refresh_token == create_refresh_token(user_id)
        c2 == store_access_token(c1, fail, user_id, access_token, AccessTTL)
        c3 == Command(c2, fail,
                [c2.redis EXCEPT !.refresh_token =
                    DEL(@, request_refresh_token)])
        c4 == store_refresh_token(c3, fail, user_id, new_refresh_token)
    IN  IF ~c1.ok
        THEN [redis |-> redis, resp |-> ServerError]
        ELSE IF user_id = None
        THEN [redis |-> redis, resp |-> fail_res("refresh")]
        ELSE IF ~c4.ok
        THEN [redis |-> c4.redis, resp |-> ServerError]
        ELSE [redis |-> c4.redis,
              resp |-> Response("success", "refresh", user_id,
                                access_token, new_refresh_token, FALSE)]

refresh_token(request_refresh_token, fail) ==
    LET user_id ==
            get_user_id_by_refresh_token(Connect, fail, request_refresh_token)
        c1 == Get(Connect, fail)
        access_token == create_access_token(user_id)
        c2 == store_access_token(c1, fail, user_id, access_token, AccessTTL)
    IN  IF ~c1.ok
        THEN [redis |-> redis, resp |-> ServerError]
        ELSE IF user_id = None
        THEN [redis |-> redis, resp |-> fail_res("refresh")]
        ELSE IF ~c2.ok
        THEN [redis |-> c2.redis, resp |-> ServerError]
        ELSE [redis |-> c2.redis,
              resp |-> Response("success", "refresh", user_id,
                                access_token, request_refresh_token, FALSE)]

\* a slip: a logout that finds no token to revoke is refused
logout_strict(current_user, fail) ==
    LET c2 == revoke_all_user_tokens(Connect, fail, current_user)
    IN  IF ~c2.ok
        THEN [redis |-> c2.redis, resp |-> ServerError]
        ELSE IF LRANGE(redis.user_tokens, current_user) = <<>>
        THEN [redis |-> c2.redis, resp |-> fail_res("logout")]
        ELSE [redis |-> c2.redis,
              resp |-> Response("success", "logout", current_user,
                                NoToken, NoToken, FALSE)]

\* The body of the route, run for the user id that the dependency
\* get_current_active_user has resolved.
logout(current_user, fail) ==
    LET c2 == revoke_all_user_tokens(Connect, fail, current_user)
    IN  IF ~c2.ok
        THEN [redis |-> c2.redis, resp |-> ServerError]
        ELSE [redis |-> c2.redis,
              resp |-> Response("success", "logout", current_user,
                                NoToken, NoToken, FALSE)]

-----------------------------------------------------------------------------
(* The state machine *)

\* The request served last: the route, the token and the user name it
\* carried, the response, and the access token that the request served
\* before it returned when that was the same call and succeeded too (a
\* login of the same user, a refresh with the same refresh token), and
\* whether the request left the database other than it found it.
Served(op, arg, name, resp, prev, after) ==
    [op |-> op, arg |-> arg, name |-> name, status |-> resp.status,
     detail |-> resp.detail, user |-> resp.user, access |-> resp.access,
     refresh |-> resp.refresh, failed |-> resp.failed, prevAccess |-> prev,
     wrote |-> after /= redis]

Idle ==
    Served("none", NoToken, None,
           Response("none", "none", None, NoToken, NoToken, FALSE), NoToken,
           redis)

NoSession == [refresh |-> NoToken, access |-> {}]

\* The tokens a request can carry: those a client holds (the ones of the
\* most recent login and its refreshes, the ones just returned), those the
\* store still knows, and a copy signed with a foreign key of each access
\* token the store honours.
Held ==
    (DOMAIN redis.access_token \cup DOMAIN redis.refresh_token
        \cup UNION {session[p].access \cup {session[p].refresh} : p \in Principals}
        \cup {last.access, last.refresh, last.prevAccess}) \ {NoToken}

Presentable == Held \cup {Forge(t) : t \in DOMAIN redis.access_token}

\* the worker processes of the server (uvicorn --workers) that serve the
\* two concurrent logins
Workers == {1, 2}

\* a worker that has not begun its login
NoLogin ==
    [pc |-> "idle", access |-> NoToken, refresh |-> NoToken,
     raced |-> FALSE, seq |-> 0]

Init ==
    /\ now = 0
    /\ users = [p \in Principals |->
                    [is_active |-> p \notin Disabled, is_deleted |-> FALSE]]
    /\ redis = [access_token |-> EmptyDb, refresh_token |-> EmptyDb,
                user_tokens |-> EmptyDb]
    /\ last = Idle
    /\ session = [p \in Principals |-> NoSession]
    /\ outages = 0
    /\ logout_user = None
    /\ logins = [w \in Workers |-> NoLogin]

\* a request whose command numbered fail raised counts as an outage; only a
\* command the request issues can raise, and a behaviour has at most
\* MaxOutages outages
Outage(fail, resp) ==
    /\ fail = 0 \/ resp.failed
    /\ outages' = IF resp.failed THEN outages + 1 ELSE outages

\* POST /auth/login
Login(username, password_ok, fail) ==
    /\ fail = 0 \/ outages < MaxOutages
    /\ \E r \in {login(username, password_ok, fail)} :
        LET ok == r.resp.status = "success"
            prev == IF last.op = "login" /\ last.status = "success"
                       /\ last.user = r.resp.user
                    THEN last.access ELSE NoToken
        IN  /\ Outage(fail, r.resp)
            /\ redis' = r.redis
            /\ last' = Served("login", NoToken, username, r.resp, prev, r.redis)
            /\ session' = IF ok
                          THEN [session EXCEPT ![r.resp.user] =
                                  [refresh |-> r.resp.refresh,
                                   access |-> {r.resp.access}]]
                          ELSE session
            /\ UNCHANGED <<now, users, logout_user, logins>>

\* POST /auth/refresh
Refresh(token, fail) ==
    /\ fail = 0 \/ outages < MaxOutages
    /\ \E r \in {refresh_token(token, fail)} :
        LET ok == r.resp.status = "success"
            u == r.resp.user
            prev == IF last.op = "refresh" /\ last.status = "success"
                       /\ last.arg = token
                    THEN last.access ELSE NoToken
        IN  /\ Len(LRANGE(redis.user_tokens, GET(redis.refresh_token, token)))
                    < MaxIndexLen
            /\ Outage(fail, r.resp)
            /\ redis' = r.redis
            /\ last' = Served("refresh", token, None, r.resp, prev, r.redis)
            /\ session' = IF ok /\ session[u].refresh = token
                          THEN [session EXCEPT ![u].access = @ \cup {r.resp.access}]
                          ELSE session
            /\ UNCHANGED <<now, users, logout_user, logins>>

\* POST /auth/logout, the dependency: FastAPI resolves
\* Depends(get_current_active_user) before it calls the route.  A request
\* that it rejects is answered here; one that it accepts goes on to the body
\* with the user it resolved, and other requests are served in between.
LogoutDepends(token, fail) ==
    /\ logout_user = None
    /\ fail = 0 \/ outages < MaxOutages
    /\ \E resp \in {get_current_active_user(Connect, fail, token)} :
        /\ Outage(fail, resp)
        /\ IF resp.status = "success"
           THEN logout_user' = resp.user /\ UNCHANGED last
           ELSE /\ logout_user' = None
                /\ last' = Served("logout", token, None, resp, NoToken, redis)
        /\ UNCHANGED <<now, users, redis, session, logins>>

\* POST /auth/logout, the body of the route
Logout(fail) ==
    /\ logout_user /= None
    /\ fail = 0 \/ outages < MaxOutages
    /\ \E r \in {logout(logout_user, fail)} :
        /\ Outage(fail, r.resp)
        /\ redis' = r.redis
        /\ last' = Served("logout", NoToken, None, r.resp, NoToken, r.redis)
        /\ logout_user' = None
        /\ UNCHANGED <<now, users, session, logins>>

\* a protected route: Depends(get_current_user)
Authenticate(token, fail) ==
    /\ fail = 0 \/ outages < MaxOutages
    /\ \E resp \in {get_current_user(Connect, fail, token)} :
        /\ Outage(fail, resp)
        /\ last' = Served("authenticate", token, None, resp, NoToken, redis)
        /\ UNCHANGED <<now, users, redis, session, logout_user, logins>>

\* UserService.delete_user: get_user raises for a missing user, then the
\* soft delete
DeleteUser(user_id) ==
    /\ get_by_id(user_id) /= None
    /\ users' = [users EXCEPT ![user_id].is_deleted = TRUE]
    /\ last' = Idle
    /\ UNCHANGED <<now, redis, session, outages, logout_user, logins>>

\* Redis removes a key whose time to live has run out.  A key written in
\* second s with a time to live of n seconds goes at some point of second
\* s + n: requests of that second may or may not find it, later ones do not.
Due(db) == {k \in DOMAIN db : db[k].expireAt /= NoExpiry /\ db[k].expireAt <= now}

ExpireKey ==
    /\ \E prefix \in {"access_token", "refresh_token", "user_tokens"} :
        \E k \in Due(redis[prefix]) :
            redis' = [redis EXCEPT ![prefix] = DEL(@, k)]
    /\ last' = Idle
    /\ UNCHANGED <<now, users, session, outages, logout_user, logins>>

\* The clock reaches the next second once the keys that were to go in this
\* one are gone.  Nothing is served meanwhile: last stays.
Tick(limit) ==
    /\ now < limit
    /\ Due(redis.access_token) = {}
    /\ Due(redis.refresh_token) = {}
    /\ Due(redis.user_tokens) = {}
    /\ now' = now + 1
    /\ UNCHANGED <<users, redis, last, session, outages, logout_user, logins>>

\* the user names a login request carries: a client's, a disabled user's,
\* or one of no row
UserNames == Clients \cup Disabled \cup {None}

\* every Redis command is answered
Next ==
    \/ \E username \in UserNames, password_ok \in BOOLEAN :
            Login(username, password_ok, 0)
    \/ \E token \in Presentable : Refresh(token, 0)
    \/ \E token \in Presentable : LogoutDepends(token, 0)
    \/ Logout(0)
    \/ \E token \in Presentable : Authenticate(token, 0)
    \/ \E user_id \in Clients : DeleteUser(user_id)
    \/ ExpireKey
    \/ Tick(MaxTime)

Spec == Init /\ [][Next]_vars

\* any one Redis command of a request may raise; the users stay as they are
NextFail ==
    \/ \E username \in UserNames, password_ok \in BOOLEAN,
          fail \in LoginFailures :
            Login(username, password_ok, fail)
    \/ \E token \in Presentable, fail \in RefreshFailures :
            Refresh(token, fail)
    \/ \E token \in Presentable, fail \in AuthenticateFailures :
            LogoutDepends(token, fail)
    \/ \E fail \in LogoutFailures : Logout(fail)
    \/ \E token \in Presentable, fail \in AuthenticateFailures :
            Authenticate(token, fail)
    \/ ExpireKey
    \/ Tick(MaxFailTime)

SpecFail == Init /\ [][NextFail]_vars

\* A session that is left alone: one login of a user, refreshes and
\* protected requests, no logout and no second login, while the clock runs
\* past the lifetime of the refresh token.
NextExpiry ==
    \/ \E username \in Clients :
            /\ session[username] = NoSession
            /\ Login(username, TRUE, 0)
    \/ \E token \in Presentable : Refresh(token, 0)
    \/ \E token \in Presentable : Authenticate(token, 0)
    \/ ExpireKey
    \/ Tick(MaxLifeTime)

SpecExpiry == Init /\ [][NextExpiry]_vars

(* Two logins of one user served by two worker processes.  The route has   *)
(* no await between its Redis calls, so one process serves it in one go;   *)
(* the calls of two processes interleave.  The steps are the calls of the  *)
(* route: revoke_all_user_tokens, store_access_token, store_refresh_token. *)

\* auth_router.py:65-77: the user is found, the password verified, the
\* account active; the earlier tokens are revoked
LoginRevoke(w, username) ==
    /\ logins[w].pc = "idle"
    /\ get_by_user_name(username) /= None
    /\ users[username].is_active
    /\ redis' = revoke_all_user_tokens(Connect, 0, username).redis
    /\ logins' = [logins EXCEPT ![w].pc = "revoked"]
    /\ UNCHANGED <<now, users, last, session, outages, logout_user>>

\* auth_router.py:80-88: both tokens are created, the access token stored.
\* raced: another worker has revoked and not yet stored, so neither revoke
\* sees the other login's access token.
LoginStoreAccess(w, username) ==
    /\ logins[w].pc = "revoked"
    /\ redis' = store_access_token(Connect, 0, username,
                    create_access_token(username), AccessTTL).redis
    /\ logins' = [logins EXCEPT
            ![w].pc = "stored",
            ![w].access = create_access_token(username),
            ![w].refresh = create_refresh_token(username),
            ![w].raced = \E v \in Workers \ {w} : logins[v].pc = "revoked"]
    /\ UNCHANGED <<now, users, last, session, outages, logout_user>>

\* auth_router.py:89-98: the refresh token is stored and the login returns;
\* seq numbers the logins in the order in which they wrote their refresh
\* token
LoginStoreRefresh(w, username) ==
    /\ logins[w].pc = "stored"
    /\ redis' = store_refresh_token(Connect, 0, username,
                    logins[w].refresh).redis
    /\ logins' = [logins EXCEPT
            ![w].pc = "done",
            ![w].seq = 1 + Cardinality({v \in Workers : logins[v].pc = "done"})]
    /\ UNCHANGED <<now, users, last, session, outages, logout_user>>

NextRace ==
    \/ \E w \in Workers, username \in Clients : LoginRevoke(w, username)
    \/ \E w \in Workers, username \in Clients : LoginStoreAccess(w, username)
    \/ \E w \in Workers, username \in Clients : LoginStoreRefresh(w, username)
    \/ \E token \in Presentable : Authenticate(token, 0)
    \/ ExpireKey
    \/ Tick(MaxTime)

SpecRace == Init /\ [][NextRace]_vars

\* settings.SECRET_KEY is read from the environment when the process starts,
\* and the Redis database outlives the process: after a restart with a
\* rotated key it still holds the entries written under the former one.
FormerKey(token) == [token EXCEPT !.key = "FORMER_SECRET_KEY"]

\* the service starts on a database that holds the refresh token of a
\* session of user 1 opened under the former key
InitRestart ==
    /\ now = 0
    /\ users = [p \in Principals |->
                    [is_active |-> p \notin Disabled, is_deleted |-> FALSE]]
    /\ redis = [access_token |-> EmptyDb,
                refresh_token |->
                    SETEX(EmptyDb, FormerKey(create_refresh_token(1)),
                          RefreshTTL, 1),
                user_tokens |-> EmptyDb]
    /\ last = Idle
    /\ session = [p \in Principals |-> NoSession]
    /\ outages = 0
    /\ logout_user = None
    /\ logins = [w \in Workers |-> NoLogin]

SpecRestart == InitRestart /\ [][Next]_vars

-----------------------------------------------------------------------------
(* What the next request would be answered, were Redis to serve it in full *)

\* authenticate(t) succeeds
AuthOK(token) == get_current_user(Connect, 0, token).status = "success"

\* the principal authenticate(t) returns
AuthUser(token) == get_current_user(Connect, 0, token).user

\* refresh(t) succeeds
RefreshOK(token) == refresh_token(token, 0).resp.status = "success"

\* the user has no active session: no access entry of theirs, no index
NoActiveSession(user_id) ==
    /\ LRANGE(redis.user_tokens, user_id) = <<>>
    /\ \A t \in DOMAIN redis.access_token :
            redis.access_token[t].value /= user_id

-----------------------------------------------------------------------------
(* C1 *)

\* C1: after two successful logins of the same user served one after the
\* other, authenticate rejects the access token of the first login and
\* accepts the access token of the second one, returning that user.
C1_SingleSession ==
    (last.op = "login" /\ last.status = "success" /\ last.prevAccess /= NoToken)
        => /\ ~AuthOK(last.prevAccess)
           /\ AuthOK(last.access)
           /\ AuthUser(last.access) = last.user

-----------------------------------------------------------------------------
(* C2 *)

\* C2: every access token of a user that authenticate accepts was issued
\* under the user's most recent login: by that login, or by a refresh with
\* that login's refresh token.
C2_OneGeneration ==
    \A t \in Held :
        (AuthOK(t) /\ session[t.sub].refresh /= NoToken)
            => t \in session[t.sub].access

-----------------------------------------------------------------------------
(* C3 *)

\* C3: once a logout of the user has returned, refresh fails for every
\* refresh token of the user; once a login of the user has returned,
\* refresh fails for every refresh token of the user but the one the login
\* returned.
C3_RefreshRevoked ==
    /\ (last.op = "logout" /\ last.status = "success")
        => \A t \in Held :
                (t.type = "refresh" /\ t.sub = last.user) => ~RefreshOK(t)
    /\ (last.op = "login" /\ last.status = "success")
        => \A t \in Held :
                (t.type = "refresh" /\ t.sub = last.user /\ t /= last.refresh)
                    => ~RefreshOK(t)

-----------------------------------------------------------------------------
(* C4 *)

\* what I1 asks of an accepted token: signed with the secret, not expired,
\* of type access, with an access entry whose value is its subject
Sound(token) ==
    /\ token.key = "SECRET_KEY"
    /\ token.exp >= now
    /\ token.type = "access"
    /\ token \in DOMAIN redis.access_token
    /\ redis.access_token[token].value = token.sub

-----------------------------------------------------------------------------
(* C5 *)

\* C5: once a logout of the user has returned, authenticate rejects the
\* access token of the user's login and every access token the refreshes
\* with that login's refresh token returned (and any other access token of
\* the user).
C5_LogoutRevokes ==
    (last.op = "logout" /\ last.status = "success")
        => /\ \A t \in session[last.user].access : ~AuthOK(t)
           /\ \A t \in Presentable : t.sub = last.user => ~AuthOK(t)

\* a logout after a login and a refresh that returned another access token
C5_Witness ==
    /\ last.op = "logout"
    /\ last.status = "success"
    /\ Cardinality(session[last.user].access) >= 2

-----------------------------------------------------------------------------
(* C6 *)

\* the database after a refresh answered resp differs from the one before
\* by the access entry of the new token and by that token at the head of
\* the user's list
RefreshFrame(before, after, resp) ==
    /\ after.refresh_token = before.refresh_token
    /\ DOMAIN after.access_token = DOMAIN before.access_token \cup {resp.access}
    /\ \A t \in DOMAIN before.access_token :
            after.access_token[t] = before.access_token[t]
    /\ after.access_token[resp.access] =
            [value |-> resp.user, expireAt |-> now + AccessTTL]
    /\ LRANGE(after.user_tokens, resp.user) =
            <<resp.access>> \o LRANGE(before.user_tokens, resp.user)
    /\ \A p \in Principals \ {resp.user} :
            /\ (p \in DOMAIN after.user_tokens) = (p \in DOMAIN before.user_tokens)
            /\ LRANGE(after.user_tokens, p) = LRANGE(before.user_tokens, p)

\* C6: a successful refresh(R) returns R as the refresh token and changes
\* the store only by the access entry of the new access token and by that
\* token added to the user's list; every refresh entry and every access
\* entry there was stay as they were.
C6_RefreshFrame ==
    /\ \A R \in Presentable :
            RefreshOK(R)
                => /\ refresh_token(R, 0).resp.refresh = R
                   /\ RefreshFrame(redis, refresh_token(R, 0).redis,
                                   refresh_token(R, 0).resp)
    /\ (last.op = "refresh" /\ last.status = "success")
        => last.refresh = last.arg

\* a refresh was served while an older access token of the session was
\* still honoured, and both are accepted
C6_Witness ==
    /\ last.op = "refresh"
    /\ last.status = "success"
    /\ \E t \in session[last.user].access :
            t /= last.access /\ AuthOK(t) /\ AuthOK(last.access)

-----------------------------------------------------------------------------
(* C7 *)

\* C7: a second refresh with the same refresh token, for a user who is
\* still there, returns an access token different from the first one's,
\* authenticate accepts both, and a third refresh with that refresh token
\* succeeds.
C7_TwoRefreshes ==
    (/\ last.op = "refresh" /\ last.status = "success"
     /\ last.prevAccess /= NoToken /\ get_by_id(last.user) /= None)
        => /\ last.access /= last.prevAccess
           /\ AuthOK(last.access)
           /\ AuthOK(last.prevAccess)
           /\ RefreshOK(last.arg)

-----------------------------------------------------------------------------
(* C8 *)

\* C8: in every state authenticate rejects every refresh token, and refresh
\* rejects every access token, issuing nothing and writing nothing.
C8_TypeConfusion ==
    \A t \in Held :
        /\ t.type = "refresh" => ~AuthOK(t)
        /\ t.type = "access"
            => /\ ~RefreshOK(t)
               /\ refresh_token(t, 0).resp.access = NoToken
               /\ refresh_token(t, 0).redis = redis
    /\ (last.op = "refresh" /\ last.arg.type = "access")
        => (last.status = "fail" /\ ~last.wrote)

\* an access token that authenticate accepts was presented to refresh
C8_Witness ==
    /\ last.op = "refresh"
    /\ last.status = "fail"
    /\ last.arg.type = "access"
    /\ AuthOK(last.arg)
    /\ \E t \in Held : t.type = "refresh" /\ RefreshOK(t)

-----------------------------------------------------------------------------
(* C9 *)

\* the answers authenticate gives in database db
Answers(db) ==
    [t \in Presentable |->
        get_current_user([redis |-> db, n |-> 0, ok |-> TRUE], 0, t)]

-----------------------------------------------------------------------------
(* C10 *)

\* C10: a request in which a Redis command raised is answered with an
\* error: no success, no principal, no token; and authenticate accepts no
\* token whose lookup raised, whatever its signature.
C10_FailClosed ==
    /\ last.failed
        => /\ last.status = "500"
           /\ last.user = None
           /\ last.access = NoToken
           /\ last.refresh = NoToken
    /\ \A t \in Presentable :
            get_current_user(Connect, 1, t).status /= "success"

\* the lookup raised for a token that is signed, unexpired and of type access
C10_Witness ==
    /\ last.op = "authenticate"
    /\ last.failed
    /\ decode_token(last.arg).ok
    /\ last.arg.type = "access"

-----------------------------------------------------------------------------
(* C11 *)

\* C11: a refresh issues an access token only for a refresh token that
\* decodes (signed with the secret, not expired), is of type refresh and
\* whose refresh entry holds its signed subject; a refresh that fails
\* writes nothing.
C11_RefreshValidated ==
    /\ (last.op = "refresh" /\ last.status = "success")
        => /\ decode_token(last.arg).ok
           /\ last.arg.type = "refresh"
           /\ last.user = last.arg.sub
    /\ (last.op = "refresh" /\ last.status = "fail")
        => (last.access = NoToken /\ ~last.wrote)

-----------------------------------------------------------------------------
(* C12 *)

\* the defect of a token in the terms of the error taxonomy
Cause(token) ==
    IF token.key /= "SECRET_KEY" THEN "TokenInvalidSignature"
    ELSE IF token.exp < now THEN "TokenExpired"
    ELSE IF token.type /= "access" THEN "TokenTypeMismatch"
    ELSE IF token \notin DOMAIN redis.access_token THEN "TokenRevoked"
    ELSE "none"

\* the causes that a detail of a 401 of get_current_user can stand for
Reported(detail) ==
    IF detail = "revoked" THEN {"TokenRevoked"}
    ELSE IF detail = "invalid" THEN {"TokenExpired", "TokenInvalidSignature"}
    ELSE IF detail = "type" THEN {"TokenTypeMismatch"}
    ELSE {"none"}

\* C12: a token that authenticate rejects is rejected for its own defect:
\* expired, signature, type mismatch, or revoked when it decodes as an
\* access token and has no access entry.
C12_Classified ==
    /\ \A t \in Presentable :
            get_current_user(Connect, 0, t).status = "401"
                => Cause(t) \in Reported(get_current_user(Connect, 0, t).detail)
    /\ (last.op = "authenticate" /\ last.status = "401" /\ last.arg.exp >= now)
            => Cause(last.arg) \in Reported(last.detail)

-----------------------------------------------------------------------------
(* C13 *)

-----------------------------------------------------------------------------
(* C14 *)

\* C14: decode rejects a token signed with the secret whose exp is the
\* current second and accepts one whose exp is the next second.
C14_ExpiryBoundary ==
    \A t \in Presentable :
        t.key = "SECRET_KEY"
            => /\ t.exp = now => ~decode_token(t).ok
               /\ t.exp = now + 1 => decode_token(t).ok

-----------------------------------------------------------------------------
(* C15 *)

\* C15: a login with a user name of no row, a wrong password or a disabled
\* account fails, returns no token and leaves the store as it was, so that
\* authenticate answers every token as it did before.
C15_RejectedLogin ==
    /\ \A username \in UserNames, password_ok \in BOOLEAN :
            (\/ get_by_user_name(username) = None
             \/ ~password_ok
             \/ ~users[username].is_active)
                => LET r == login(username, password_ok, 0)
                   IN  /\ r.resp.status = "fail"
                       /\ r.resp.access = NoToken
                       /\ r.resp.refresh = NoToken
                       /\ r.redis = redis
                       /\ Answers(r.redis) = Answers(redis)
    /\ (last.op = "login" /\ last.status = "fail")
        => (last.access = NoToken /\ last.refresh = NoToken /\ ~last.wrote)

\* a login with a wrong password was rejected while the user had a session
\* whose access token authenticate accepts
C15_Witness ==
    /\ last.op = "login"
    /\ last.status = "fail"
    /\ last.name \in Clients
    /\ \E t \in session[last.name].access : AuthOK(t)

-----------------------------------------------------------------------------
(* C16 *)

\* the Redis commands of revoke_all_user_tokens for a user: the LRANGE, a
\* DEL for each listed token, the DEL of the list
RevokeCommands(user_id) == Len(LRANGE(redis.user_tokens, user_id)) + 2

\* C16: a login revokes before it stores: the access token it returns has
\* its entry, is the only token of the user's list and is accepted by
\* authenticate once the login has returned; a login whose revoke raised
\* has written no entry.
C16_RevokeBeforeIssue ==
    /\ (last.op = "login" /\ last.status = "success")
        => (AuthOK(last.access) /\ AuthUser(last.access) = last.user)
    /\ \A u \in Clients :
            get_by_user_name(u) /= None
                => /\ LET r == login(u, TRUE, 0)
                      IN  /\ r.resp.status = "success"
                          /\ GET(r.redis.access_token, r.resp.access) = u
                          /\ LRANGE(r.redis.user_tokens, u) = <<r.resp.access>>
                   /\ \A fail \in 1..RevokeCommands(u) :
                        LET r == login(u, TRUE, fail)
                        IN  /\ r.resp.failed
                            /\ DOMAIN r.redis.access_token
                                    \subseteq DOMAIN redis.access_token
                            /\ r.redis.refresh_token = redis.refresh_token
                            /\ r.redis.user_tokens = redis.user_tokens

\* a login has replaced an earlier session: the earlier access token is
\* rejected, the new one accepted
C16_Witness ==
    /\ last.op = "login"
    /\ last.status = "success"
    /\ last.prevAccess /= NoToken
    /\ last.prevAccess /= last.access
    /\ ~AuthOK(last.prevAccess)
    /\ AuthOK(last.access)

-----------------------------------------------------------------------------
(* C17 *)

\* both concurrent logins have returned, with different access tokens that
\* authenticate both accepts
TwoGenerations ==
    /\ \A w \in Workers : logins[w].pc = "done"
    /\ \E v, w \in Workers :
            /\ logins[v].access /= logins[w].access
            /\ AuthOK(logins[v].access)
            /\ AuthOK(logins[w].access)

\* C17: two logins of one user whose store calls interleave can both leave
\* their access token listed and accepted after both have returned; this
\* happens only when the calls did interleave, each login having revoked
\* before the other stored its access token.
C17_LoginRace ==
    TwoGenerations => \E w \in Workers : logins[w].raced

\* both logins have returned and the access token of the one that wrote its
\* refresh token first is still listed and accepted, as is the other's
C17_Witness ==
    /\ TwoGenerations
    /\ \E v, w \in Workers :
            /\ logins[v].seq = 1
            /\ logins[w].seq = 2
            /\ \E i \in 1..Len(LRANGE(redis.user_tokens, logins[v].access.sub)) :
                    LRANGE(redis.user_tokens, logins[v].access.sub)[i]
                        = logins[v].access
            /\ AuthOK(logins[v].access)
            /\ AuthOK(logins[w].access)

-----------------------------------------------------------------------------
(* C18 *)

\* the tokens that user_tokens:{user_id} lists
Listed(db, user_id) ==
    {LRANGE(db.user_tokens, user_id)[i] :
        i \in 1..Len(LRANGE(db.user_tokens, user_id))}

\* C18: whatever requests were served one after the other and whatever
\* keys have expired, every access entry is listed in the list of the user
\* it maps to (a list may name tokens whose entry is gone), and that list
\* does not expire before the entry does.
C18_IndexCoverage ==
    \A t \in DOMAIN redis.access_token :
        /\ t \in Listed(redis, redis.access_token[t].value)
        /\ redis.user_tokens[redis.access_token[t].value].expireAt
                >= redis.access_token[t].expireAt

\* a list that names a token whose entry has expired beside one whose
\* entry is there
C18_Witness ==
    \E p \in Principals :
        /\ \E t \in Listed(redis, p) : t \in DOMAIN redis.access_token
        /\ \E t \in Listed(redis, p) : t \notin DOMAIN redis.access_token

-----------------------------------------------------------------------------
(* C19 *)

\* a connection to database db
On(db) == [redis |-> db, n |-> 0, ok |-> TRUE]

\* database db with the access entries of the tokens listed for user_id
\* and the list itself removed
Revoked(db, user_id) ==
    [db EXCEPT
        !.access_token =
            [t \in DOMAIN db.access_token \ Listed(db, user_id) |->
                db.access_token[t]],
        !.user_tokens = DEL(@, user_id)]

\* C19: revoke_all_user_tokens run to its end deletes the access entry of
\* every token the user's list names and the list, and nothing else; run
\* again it changes nothing, and without a list it changes nothing.
C19_RevokeAll ==
    \A p \in Principals :
        LET c == revoke_all_user_tokens(Connect, 0, p)
        IN  /\ c.ok
            /\ c.redis = Revoked(redis, p)
            /\ \A t \in Listed(redis, p) : t \notin DOMAIN c.redis.access_token
            /\ p \notin DOMAIN c.redis.user_tokens
            /\ revoke_all_user_tokens(On(c.redis), 0, p).redis = c.redis
            /\ p \notin DOMAIN redis.user_tokens => c.redis = redis

\* a logout has revoked a list of several tokens: the entries and the list
\* are gone
C19_Witness ==
    /\ last.op = "logout"
    /\ last.status = "success"
    /\ last.wrote
    /\ Cardinality(session[last.user].access) >= 2
    /\ last.user \notin DOMAIN redis.user_tokens
    /\ \A t \in session[last.user].access : t \notin DOMAIN redis.access_token

-----------------------------------------------------------------------------
(* C20 *)

\* the lifetimes store_access_token is called with
Lifetimes == {AccessTTL, RefreshTTL}

\* C20: once store_access_token(P, t, ttl) has run, the lookup of t
\* returns P, the access entry expires ttl seconds from the call, t heads
\* the list of P, and that list expires a full refresh lifetime from the
\* call, whatever it had left before.
C20_PutAccess ==
    /\ \A p \in Principals, ttl \in Lifetimes :
        \A t \in {create_access_token(p)}
                \cup {h \in Held : h.type = "access"} :
            LET c == store_access_token(Connect, 0, p, t, ttl)
            IN  /\ c.ok
                /\ get_user_id_by_access_token(On(c.redis), 0, t) = p
                /\ c.redis.access_token[t].expireAt = now + ttl
                /\ LRANGE(c.redis.user_tokens, p)
                        = <<t>> \o LRANGE(redis.user_tokens, p)
                /\ c.redis.user_tokens[p].expireAt = now + RefreshTTL
    /\ (last.op \in {"login", "refresh"} /\ last.status = "success")
        => /\ GET(redis.access_token, last.access) = last.user
           /\ redis.access_token[last.access].expireAt = last.access.exp
           /\ last.access \in Listed(redis, last.user)
           /\ redis.user_tokens[last.user].expireAt
                = last.access.exp - AccessTTL + RefreshTTL

\* a refresh has stored an access token on a list that was created in an
\* earlier second and had less than the refresh lifetime left
C20_Witness ==
    /\ last.op = "refresh"
    /\ last.status = "success"
    /\ \E t \in Listed(redis, last.user) : t.exp < last.access.exp
    /\ redis.user_tokens[last.user].expireAt = last.access.exp - AccessTTL + RefreshTTL

-----------------------------------------------------------------------------
(* C21 *)

\* C21: every access and refresh entry expires at the exp signed into its
\* token, and a session that is neither logged out nor replaced expires:
\* past the exp of an access token authenticate rejects it, past the exp of
\* a refresh token refresh rejects it, from then on.
C21_ExpiryByTTL ==
    /\ \A t \in DOMAIN redis.access_token :
            redis.access_token[t].expireAt = t.exp
    /\ \A t \in DOMAIN redis.refresh_token :
            redis.refresh_token[t].expireAt = t.exp
    /\ \A t \in Presentable :
            t.exp < now => (~AuthOK(t) /\ ~RefreshOK(t))
    /\ (last.op = "authenticate" /\ last.arg.exp < now)
            => last.status = "401"
    /\ (last.op = "refresh" /\ last.arg.exp < now)
            => last.status = "fail"

\* the refresh token of a login was presented after its lifetime and
\* rejected, the access tokens of the session being past theirs too
C21_Witness ==
    /\ last.op = "refresh"
    /\ last.status = "fail"
    /\ last.arg.type = "refresh"
    /\ last.arg = session[last.arg.sub].refresh
    /\ last.arg.exp < now
    /\ \A t \in session[last.arg.sub].access : t.exp < now /\ ~AuthOK(t)

-----------------------------------------------------------------------------
(* User management: app/services/user_service.py, app/schemas/             *)
(* user_schema.py and app/api/user_router.py.  Here a row of sys_users     *)
(* also carries user_type (1: administrator, 9: ordinary user), email and  *)
(* full_name.                                                              *)

\* the ids a request names: those of the rows and one of no row
TargetIds == Principals \cup {4}

\* Optional[EmailStr]: None, or the address of a user
NoEmail == <<>>
Address(user_id) == <<"mail", user_id>>

\* full names; the second stands for the label the schema writes over an
\* administrator's
FullNames == {"System Administrator", "Administrator"}

UserRows ==
    [is_active : BOOLEAN, is_deleted : {FALSE}, user_type : {1, 9},
     email : {NoEmail} \cup {Address(p) : p \in Principals},
     full_name : FullNames]

\* the User object of a row of a table
Row(table, user_id) ==
    [user_id |-> user_id, user_name |-> user_id,
     email |-> table[user_id].email, full_name |-> table[user_id].full_name,
     is_active |-> table[user_id].is_active,
     user_type |-> table[user_id].user_type]

\* Python's None where an Optional[User] or a UserOut is expected
NoUser == [user_id |-> None]

\* UserService.get_user: the row, or AppError when there is none (None here)
get_user(user_id) == get_by_id(user_id)

\* a slip: every user may view every user
can_view_user_open(current_user, target_user_id) == "True"

\* The three checks return "True", "False" or the message of the AppError
\* they raise.
can_delete_user(current_user, target_user_id) ==
    IF users[current_user].user_type /= 1
    THEN "False"
    ELSE IF get_user(target_user_id) = None
    THEN "not found"
    ELSE IF target_user_id = current_user
    THEN "cannot delete own account"
    ELSE "True"

can_view_user(current_user, target_user_id) ==
    IF users[current_user].user_type = 1
    THEN "True"
    ELSE IF current_user = target_user_id
    THEN "True"
    ELSE "False"

can_update_user(current_user, target_user_id) ==
    IF get_user(target_user_id) = None
    THEN "not found"
    ELSE IF users[current_user].user_type = 1
    THEN IF users[target_user_id].user_type = 1
                /\ target_user_id /= current_user
         THEN "cannot update another administrator"
         ELSE "True"
    ELSE IF users[target_user_id].user_type = 1
    THEN "False"
    ELSE IF current_user = target_user_id
    THEN "True"
    ELSE "False"

\* UserOut.from_user_with_permission of two User objects; current_user is
\* NoUser when absent
from_user_with_permission(user, current_user) ==
    IF /\ (current_user = NoUser \/ current_user.user_type /= 1)
       /\ user.user_type = 1
    THEN [user EXCEPT !.email = NoEmail,
                      !.full_name = "Administrator",
                      !.is_active = TRUE,
                      !.user_type = 9]
    ELSE user

\* the answer of a user route and the table it leaves; an AppError is
\* answered by global_exception_handler with fail_res(message)
Reply(status, detail, data, table) ==
    [status |-> status, detail |-> detail, data |-> data, users |-> table]

\* GET /users/detail/{user_id}
route_get_user(current_user, user_id) ==
    IF can_view_user(current_user, user_id) /= "True"
    THEN Reply("fail", "no permission to view", NoUser, users)
    ELSE IF get_user(user_id) = None
    THEN Reply("fail", "not found", NoUser, users)
    ELSE Reply("success", "ok",
               from_user_with_permission(Row(users, user_id),
                                         Row(users, current_user)),
               users)

\* the fields a UserUpdate sets (exclude_unset leaves the others alone)
Unset == <<"unset">>
ObjIns ==
    [email : {Unset, NoEmail}, full_name : {"unset"} \cup FullNames]

\* UserService.update_user on an existing row
update_user(user_id, obj_in) ==
    [users EXCEPT
        ![user_id].email = IF obj_in.email = Unset THEN @ ELSE obj_in.email,
        ![user_id].full_name =
            IF obj_in.full_name = "unset" THEN @ ELSE obj_in.full_name]

\* PUT /users/update/{user_id}
route_update_user(current_user, user_id, obj_in) ==
    LET allowed == can_update_user(current_user, user_id)
        table == update_user(user_id, obj_in)
    IN  IF allowed = "False"
        THEN Reply("fail", "no permission to update", NoUser, users)
        ELSE IF allowed /= "True"
        THEN Reply("fail", allowed, NoUser, users)
        ELSE Reply("success", "ok",
                   from_user_with_permission(Row(table, user_id),
                                             Row(users, current_user)),
                   table)

\* UserService.delete_user on an existing row: the soft delete
delete_user(user_id) == [users EXCEPT ![user_id].is_deleted = TRUE]

\* DELETE /users/delete/{user_id}
route_delete_user(current_user, user_id) ==
    LET allowed == can_delete_user(current_user, user_id)
    IN  IF allowed = "False"
        THEN Reply("fail", "no permission to delete", NoUser, users)
        ELSE IF allowed /= "True"
        THEN Reply("fail", allowed, NoUser, users)
        ELSE Reply("success", "deleted", NoUser, delete_user(user_id))

\* what is remembered of the user request served last
Answered(op, current_user, user_id, reply) ==
    [op |-> op, user |-> current_user, arg |-> user_id,
     status |-> reply.status, detail |-> reply.detail, data |-> reply.data,
     changed |-> reply.users /= users]

NoRequest ==
    Answered("none", None, None, Reply("none", "none", NoUser, users))

\* the user table holds any rows, none of them deleted
InitUsers ==
    /\ now = 0
    /\ users \in [Principals -> UserRows]
    /\ \A p \in Principals :
        /\ users[p].email \in {NoEmail, Address(p)}
        /\ users[p].is_active = (p \notin Disabled)
    /\ redis = [access_token |-> EmptyDb, refresh_token |-> EmptyDb,
                user_tokens |-> EmptyDb]
    /\ last = NoRequest
    /\ session = [p \in Principals |-> NoSession]
    /\ outages = 0
    /\ logout_user = None
    /\ logins = [w \in Workers |-> NoLogin]

\* get_current_active_user hands a route the row of an existing, active user
ActiveUsers == {p \in Principals : get_by_id(p) /= None /\ users[p].is_active}

ServeUser(op, current_user, user_id, reply) ==
    /\ current_user \in ActiveUsers
    /\ last' = Answered(op, current_user, user_id, reply)
    /\ users' = reply.users
    /\ UNCHANGED <<now, redis, session, outages, logout_user, logins>>

GetUser(current_user, user_id) ==
    ServeUser("get_user", current_user, user_id,
              route_get_user(current_user, user_id))

UpdateUser(current_user, user_id, obj_in) ==
    ServeUser("update_user", current_user, user_id,
              route_update_user(current_user, user_id, obj_in))

RemoveUser(current_user, user_id) ==
    ServeUser("delete_user", current_user, user_id,
              route_delete_user(current_user, user_id))

NextUsers ==
    \/ \E current_user \in Principals, user_id \in TargetIds :
            GetUser(current_user, user_id)
    \/ \E current_user \in Principals, user_id \in TargetIds,
          obj_in \in ObjIns :
            UpdateUser(current_user, user_id, obj_in)
    \/ \E current_user \in Principals, user_id \in TargetIds :
            RemoveUser(current_user, user_id)

SpecUsers == InitUsers /\ [][NextUsers]_vars

-----------------------------------------------------------------------------
(* C22 *)

\* C22: a current user who is no administrator can delete no user, can view
\* only itself and can update only itself (and never an administrator); an
\* administrator can view every user and is refused the deletion of its own
\* account.  The routes answer accordingly and then leave the table alone.
C22_Confinement ==
    /\ \A current_user \in Principals, target \in TargetIds :
        /\ users[current_user].user_type /= 1 =>
            /\ can_delete_user(current_user, target) = "False"
            /\ can_view_user(current_user, target) = "True"
                    => target = current_user
            /\ can_update_user(current_user, target) = "True"
                    => (target = current_user /\ users[target].user_type /= 1)
        /\ users[current_user].user_type = 1 =>
            /\ can_view_user(current_user, target) = "True"
            /\ can_delete_user(current_user, current_user) /= "True"
    /\ (last.op \in {"get_user", "update_user", "delete_user"}
            /\ users[last.user].user_type /= 1) =>
        /\ last.op = "delete_user" => (last.status = "fail" /\ ~last.changed)
        /\ last.arg /= last.user => (last.status = "fail" /\ ~last.changed)
    /\ (last.op = "delete_user" /\ last.arg = last.user) =>
            (last.status = "fail" /\ ~last.changed)

\* an ordinary user was refused the deletion of another user, whom an
\* administrator, unable to delete itself, could delete
C22_Witness ==
    /\ last.op = "delete_user" /\ last.status = "fail" /\ ~last.changed
    /\ users[last.user].user_type /= 1
    /\ last.arg /= last.user /\ get_by_id(last.arg) /= None
    /\ \E admin \in ActiveUsers :
            /\ users[admin].user_type = 1
            /\ can_delete_user(admin, admin) = "cannot delete own account"
            /\ can_delete_user(admin, last.arg) = "True"

-----------------------------------------------------------------------------
(* C23 *)

\* the viewers of a user: every row and nobody
Viewers == {Row(users, p) : p \in Principals} \cup {NoUser}

\* C23: for a viewer who is absent or no administrator, the output for an
\* administrator has user_type 9 and no email and keeps the full name; for
\* an administrator as viewer, or an ordinary user viewed, the output is the
\* row unchanged; so no such viewer is given user_type 1 or an
\* administrator's email.
C23_AdminMasking ==
    \A p \in Principals, current_user \in Viewers :
        LET user == Row(users, p)
            out == from_user_with_permission(user, current_user)
            admin_viewer ==
                current_user /= NoUser /\ current_user.user_type = 1
        IN  /\ (~admin_viewer /\ user.user_type = 1) =>
                /\ out.user_type = 9
                /\ out.email = NoEmail
                /\ out.full_name = user.full_name
            /\ (admin_viewer \/ user.user_type /= 1) => out = user
            /\ ~admin_viewer =>
                /\ out.user_type /= 1
                /\ user.user_type = 1 => out.email = NoEmail

-----------------------------------------------------------------------------
(* C24 *)

\* C24: an access token that a login or refresh returned and whose entry is
\* gone from the store (by a logout, by the revocation of a later login, by
\* its time to live) is not accepted by authenticate after any further step.
C24_RevocationPermanent ==
    [][\A p \in Principals :
        \A t \in session[p].access :
            t \notin DOMAIN redis.access_token => ~AuthOK(t)']_vars

-----------------------------------------------------------------------------
(* C25 *)

\* C25: the tokens a successful login returns differ from the tokens that
\* the login of the same user served just before it returned, also when
\* both are served in the same second.
C25_FreshTokens ==
    (last.op = "login" /\ last.status = "success" /\ last.prevAccess /= NoToken)
        => last.access /= last.prevAccess

-----------------------------------------------------------------------------
(* A refresh and a bulk revocation served by two worker processes, Redis   *)
(* command by Redis command.  Worker 1 serves POST /auth/refresh, worker 2 *)
(* runs revoke_all_user_tokens (of a logout, or of a login before it       *)
(* stores).  No command of the two is wrapped in a transaction or a lock.  *)

\* auth_router.py:120-125: GET refresh_token:{token}, then the access token
\* is created
RefreshLookup(token) ==
    /\ logins[1].pc = "idle"
    /\ GET(redis.refresh_token, token) /= None
    /\ logins' = [logins EXCEPT
            ![1].pc = "looked",
            ![1].refresh = token,
            ![1].access =
                create_access_token(GET(redis.refresh_token, token))]
    /\ UNCHANGED <<now, users, redis, last, session, outages, logout_user>>

\* redis_service.py:52-56
RefreshSetex ==
    /\ logins[1].pc = "looked"
    /\ redis' = [redis EXCEPT !.access_token =
                    SETEX(@, logins[1].access, AccessTTL, logins[1].access.sub)]
    /\ logins' = [logins EXCEPT ![1].pc = "set"]
    /\ UNCHANGED <<now, users, last, session, outages, logout_user>>

\* redis_service.py:59-60
RefreshLpush ==
    /\ logins[1].pc = "set"
    /\ redis' = [redis EXCEPT !.user_tokens =
                    LPUSH(@, logins[1].access.sub, logins[1].access)]
    /\ logins' = [logins EXCEPT ![1].pc = "pushed"]
    /\ UNCHANGED <<now, users, last, session, outages, logout_user>>

\* redis_service.py:62-63, and the refresh returns
RefreshExpire ==
    /\ logins[1].pc = "pushed"
    /\ redis' = [redis EXCEPT !.user_tokens =
                    EXPIRE(@, logins[1].access.sub, RefreshTTL)]
    /\ logins' = [logins EXCEPT ![1].pc = "done"]
    /\ UNCHANGED <<now, users, last, session, outages, logout_user>>

\* redis_service.py:154-155: LRANGE user_tokens:{user_id} 0 -1, for a user
\* who has logged in
RevokeRange(user_id) ==
    /\ logins[2].pc = "idle"
    /\ session[user_id] /= NoSession
    /\ logins' = [logins EXCEPT
            ![2] = [pc |-> "ranged", user |-> user_id,
                    tokens |-> LRANGE(redis.user_tokens, user_id)]]
    /\ UNCHANGED <<now, users, redis, last, session, outages, logout_user>>

\* redis_service.py:158-160: DEL access_token:{token} for the next token
RevokeDel ==
    /\ logins[2].pc = "ranged"
    /\ logins[2].tokens /= <<>>
    /\ redis' = [redis EXCEPT !.access_token = DEL(@, Head(logins[2].tokens))]
    /\ logins' = [logins EXCEPT ![2].tokens = Tail(@)]
    /\ UNCHANGED <<now, users, last, session, outages, logout_user>>

\* redis_service.py:163: DEL user_tokens:{user_id}, and the revocation is
\* complete
RevokeDelIndex ==
    /\ logins[2].pc = "ranged"
    /\ logins[2].tokens = <<>>
    /\ redis' = [redis EXCEPT !.user_tokens = DEL(@, logins[2].user)]
    /\ logins' = [logins EXCEPT ![2].pc = "done"]
    /\ UNCHANGED <<now, users, last, session, outages, logout_user>>

\* logins and refreshes are served in full until the two workers begin
NextInterleave ==
    \/ \E username \in Clients :
            /\ \A w \in Workers : logins[w].pc = "idle"
            /\ Login(username, TRUE, 0)
    \/ \E token \in Presentable :
            /\ \A w \in Workers : logins[w].pc = "idle"
            /\ Refresh(token, 0)
    \/ \E token \in Presentable : RefreshLookup(token)
    \/ RefreshSetex
    \/ RefreshLpush
    \/ RefreshExpire
    \/ \E user_id \in Clients : RevokeRange(user_id)
    \/ RevokeDel
    \/ RevokeDelIndex
    \/ \E token \in Presentable : Authenticate(token, 0)
    \/ ExpireKey
    \/ Tick(MaxTime)

SpecInterleave == Init /\ [][NextInterleave]_vars

-----------------------------------------------------------------------------
(* C26 *)

\* C26: when a refresh and a bulk revocation of the same user have both
\* completed, however their commands interleaved, every access entry of the
\* user that is still in the store is listed in the user's list.
C26_RefreshRevokeRace ==
    (/\ logins[1].pc = "done"
     /\ logins[2].pc = "done"
     /\ logins[2].user = logins[1].access.sub)
        => \A t \in DOMAIN redis.access_token :
                redis.access_token[t].value = logins[2].user
                    => t \in Listed(redis, logins[2].user)

-----------------------------------------------------------------------------
(* C27 *)

\* C27: a login of which a Redis command raises after the revocation, in
\* store_access_token or in store_refresh_token, reports the failure and
\* leaves no access entry and no refresh entry of a token it created.
C27_LoginAllOrNothing ==
    \A u \in Clients :
        get_by_user_name(u) /= None =>
            \A fail \in (RevokeCommands(u) + 1)..(RevokeCommands(u) + 4) :
                LET r == login(u, TRUE, fail)
                IN  /\ r.resp.failed
                    /\ r.resp.status /= "success"
                    /\ create_access_token(u)
                            \notin DOMAIN r.redis.access_token
                    /\ create_refresh_token(u)
                            \notin DOMAIN r.redis.refresh_token

-----------------------------------------------------------------------------
(* C28 *)

\* C28: a store_access_token of which the LPUSH or the EXPIRE raises does
\* not leave the access entry it wrote in the store without the token being
\* on the user's list.
C28_PutAccessPartial ==
    \A u \in Clients :
        \A fail \in {2, 3} :
            LET c == store_access_token(Connect, fail, u,
                                        create_access_token(u), AccessTTL)
            IN  /\ ~c.ok
                /\ create_access_token(u) \in DOMAIN c.redis.access_token
                        => create_access_token(u) \in Listed(c.redis, u)

-----------------------------------------------------------------------------
(* Accounts that are deleted or deactivated while they hold a session *)

\* UserRepository.update with is_active = False: the row is deactivated
DeactivateUser(user_id) ==
    /\ get_by_id(user_id) /= None
    /\ users[user_id].is_active
    /\ users' = [users EXCEPT ![user_id].is_active = FALSE]
    /\ last' = Idle
    /\ UNCHANGED <<now, redis, session, outages, logout_user, logins>>

\* a route of user_router.py: Depends(get_current_active_user)
Protected(token) ==
    /\ last' = Served("protected", token, None,
                      get_current_active_user(Connect, 0, token), NoToken,
                      redis)
    /\ UNCHANGED <<now, users, redis, session, outages, logout_user, logins>>

NextAccounts ==
    \/ \E username \in Clients : Login(username, TRUE, 0)
    \/ \E token \in Presentable : Refresh(token, 0)
    \/ \E token \in Presentable : Protected(token)
    \/ \E user_id \in Clients : DeleteUser(user_id)
    \/ \E user_id \in Clients : DeactivateUser(user_id)
    \/ ExpireKey
    \/ Tick(MaxTime)

SpecAccounts == Init /\ [][NextAccounts]_vars

-----------------------------------------------------------------------------
(* C29 *)

\* C29: get_current_active_user returns a user only when the row exists, is
\* not deleted and is active, whatever token is presented: also an access
\* token that a refresh issued after the row was deleted or deactivated.
C29_ActiveOnly ==
    /\ \A t \in Presentable :
        LET r == get_current_active_user(Connect, 0, t)
        IN  r.status = "success" =>
                /\ r.user \in Principals
                /\ ~users[r.user].is_deleted
                /\ users[r.user].is_active
    /\ (last.op = "protected" /\ last.status = "success") =>
            /\ last.user \in Principals
            /\ ~users[last.user].is_deleted
            /\ users[last.user].is_active

\* a refresh served after the deactivation of its user has issued an access
\* token that the store holds and that is not expired; a protected request
\* with it is refused
C29_Witness ==
    /\ last.op = "refresh"
    /\ last.status = "success"
    /\ ~users[last.user].is_active
    /\ last.access \in DOMAIN redis.access_token
    /\ last.access.exp > now
    /\ get_current_user(Connect, 0, last.access).status = "success"
    /\ get_current_active_user(Connect, 0, last.access).status = "400"

-----------------------------------------------------------------------------
(* Two users with sessions *)

\* each user logs in once; the clients go on to refresh and to log out,
\* the other user keeps the session and sends nothing more
NextIsolation ==
    \/ \E username \in Principals \ Disabled :
            /\ session[username] = NoSession
            /\ Login(username, TRUE, 0)
    \/ \E token \in Held : token.sub \in Clients /\ Refresh(token, 0)
    \/ \E token \in Held : token.sub \in Clients /\ LogoutDepends(token, 0)
    \/ Logout(0)
    \/ ExpireKey
    \/ Tick(MaxFailTime)

SpecIsolation == Init /\ [][NextIsolation]_vars

-----------------------------------------------------------------------------
(* C30 *)

\* the keys of a user in a database: the access and refresh entries that
\* map to the user or whose token names the user, and the user's list
Keys(db, user_id) ==
    [access |-> {<<t, db.access_token[t]>> :
                    t \in {k \in DOMAIN db.access_token :
                            db.access_token[k].value = user_id
                                \/ k.sub = user_id}},
     refresh |-> {<<t, db.refresh_token[t]>> :
                    t \in {k \in DOMAIN db.refresh_token :
                            db.refresh_token[k].value = user_id
                                \/ k.sub = user_id}},
     index |-> {<<k, db.user_tokens[k]>> :
                    k \in DOMAIN db.user_tokens \cap {user_id}}]

\* C30: a login of a user, a refresh with a refresh token of the user and a
\* logout of the user leave the access entries, the refresh entries and the
\* list of every other user as they are.
C30_Isolation ==
    \A p \in Principals, q \in Principals :
        p /= q =>
            /\ Keys(login(p, TRUE, 0).redis, q) = Keys(redis, q)
            /\ Keys(logout(p, 0).redis, q) = Keys(redis, q)
            /\ \A t \in Presentable :
                    GET(redis.refresh_token, t) = p
                        => Keys(refresh_token(t, 0).redis, q) = Keys(redis, q)

\* a user has logged out, which removed entries, and another user's session
\* is still honoured
C30_Witness ==
    /\ last.op = "logout"
    /\ last.status = "success"
    /\ last.wrote
    /\ \E q \in Principals \ {last.user} :
            /\ session[q] /= NoSession
            /\ RefreshOK(session[q].refresh)
            /\ \E t \in session[q].access : AuthOK(t) /\ AuthUser(t) = q

====
